---- MODULE Spec2Model ----
(***************************************************************************)
(* Model of the Simpiler mobile client's device-transport and compile      *)
(* core:                                                                   *)
(*   - BoardCommunicationService (mobile/src/services/CompilationService.js*)
(*     lines 222-579): connectToBoard, disconnectFromBoard, uploadBinary   *)
(*   - CompilationService.downloadBinary / getCompilationStatus and the    *)
(*     polling loop of EditorScreen.compileCode.                           *)
(*                                                                         *)
(* Every async function is a call slot with a program counter that names   *)
(* the await it is suspended at.  One step of a slot is: the awaited       *)
(* native call completes (its effect on the driver happens, or it throws), *)
(* and the JavaScript continuation runs synchronously up to the next await *)
(* (where the next native call is issued) or to the return / throw.        *)
(***************************************************************************)
EXTENDS Integers, Sequences, FiniteSets, TLC

\* ------------------------------------------------------------------ bounds
\* number of concurrently usable call slots of the board service
NumCalls == 2
\* largest binary file (bytes) of the single-upload specification
MaxFileBytes == 300
\* timer callbacks of the polling interval that may be in flight at once
MaxTicks == 2
\* longest subscriber list
MaxCallbacks == 2
\* data chunks that arrive from the board
MaxArrivals == 2
\* listeners counted on one BLE characteristic (more count as this many)
MaxListeners == 2
\* consecutive failed status requests that are counted (the counter saturates)
RetryLimit == 3
\* concurrently usable call slots of the registry operations
NumRegCalls == 2

\* ------------------------------------------------------- program constants
UsbChunkSize == 128
BleChunkSize == 20

None == "none"

Calls == 1..NumCalls

\* Boards a scan can offer: two wired, one wireless, one network target.
Boards == {"u1", "u2", "b1", "w1"}

BoardType(b) ==
    CASE b \in {"u1", "u2"} -> "usb"
      [] b = "b1" -> "ble"
      [] b \in {"w1", "w2"} -> "wifi"
      [] OTHER -> None

\* File sizes (bytes) of the binaries an upload may be given in the
\* interleaving specification; NoFile is a path that does not exist.
NoFile == 0 - 1
SmallFiles == {NoFile, 0, 16}

VARIABLES
    platform,         \* Platform.OS: "android" | "ios"
    connectedDevice,  \* this.connectedDevice (a board id or None)
    connectionType,   \* this.connectionType ("usb" | "ble" | "wifi" | None)
    drv,              \* native driver state of each board: closed | conn | open
    faulted,          \* history: some native driver call has thrown
    calls,            \* the async invocations in flight, one record per slot
    \* --- the compile flow (EditorScreen.compileCode, CompilationService)
    serverStatus,     \* the remote job: none | queued | compiling | completed | failed
    isCompiling,      \* EditorScreen state isCompiling
    compilationResult,\* EditorScreen state compilationResult (its status, or None)
    pollInterval,     \* the setInterval of compileCode is registered and not cleared
    tasks,            \* compileCode (task 0) and the timer callbacks in flight
    compiled_binaries,\* AsyncStorage 'compiled_binaries': the ids of its entries
    downloads,        \* number of completed downloadAsync transfers
    terminalSeen,     \* history: a status response completed/failed was observed
    failures,         \* history: consecutive status requests that threw (saturating)
    \* --- the device registry (getAvailableBoards, addEspDevice, removeEspDevice)
    esp_devices,      \* AsyncStorage 'esp_devices': the saved {name, ip, port} records
    regs,             \* the addEspDevice / removeEspDevice invocations in flight
    scan,             \* the getAvailableBoards invocation in flight
    registered,       \* history: host -> port of its last completed registration
    serialMonitorCallbacks, \* this.serialMonitorCallbacks
    arrived,          \* history: number of data chunks the data listener was called with
    delivered,        \* history: handler -> the chunks it was called with, in order
    thrown,           \* history: the handler whose exception ended the last forEach
    listeners,        \* the data listeners the drivers hold
    connectedBoard    \* EditorScreen: the connectedBoard state

boardVars == <<platform, connectedDevice, connectionType, drv, faulted, calls>>
compileVars == <<serverStatus, isCompiling, compilationResult, pollInterval, tasks,
                 compiled_binaries, downloads, terminalSeen, failures>>
registryVars == <<esp_devices, regs, scan, registered>>
monitorVars == <<arrived, delivered, thrown, listeners>>
screenVars == <<connectedBoard>>
auxVars == <<registryVars, serialMonitorCallbacks, monitorVars, screenVars>>
vars == <<boardVars, compileVars, auxVars>>

\* ---------------------------------------------------------------- modules
\* lines 206-220: UsbSerial only on android, BleManager only on ios, EspOta on both
UsbSerial == platform = "android"
BleManager == platform = "ios"
EspOta == TRUE

\* ---------------------------------------------------------- pure helpers
\* length of the Base64 text FileSystem.readAsStringAsync returns for n bytes
Base64Length(n) == 4 * ((n + 2) \div 3)

\* Math.ceil(binary.length / chunkSize)
TotalChunks(len, chunkSize) == (len + chunkSize - 1) \div chunkSize

\* a connectToBoard that never tears the previous connection down
NeedsDisconnect_Never(cd) == FALSE

\* `if (this.connectedDevice)` of connectToBoard (line 304)
NeedsDisconnect(cd) == cd # None

\* an uploadBinary without its connection check
NoBoardConnected_Never(cd) == FALSE

\* `if (!this.connectedDevice)` of uploadBinary (line 389)
NoBoardConnected(cd) == cd = None

\* `this.connectedDevice.id` : reading .id of null throws a TypeError
DerefFails(cd) == cd = None

\* ------------------------------------------------------------ call record
IdleCall ==
    [op |-> "idle", pc |-> "idle", board |-> None, tgt |-> None, err |-> None,
     file |-> NoFile, chunkSize |-> 0, len |-> 0, i |-> 0, totalChunks |-> 0,
     progress |-> <<>>,
     \* history (not program state)
     via |-> None, log |-> <<>>, ota |-> <<>>,
     prev |-> None, solo |-> TRUE, lostAt |-> 0 - 1, cancelAt |-> 0 - 1]

Running(c) == c.pc \notin {"idle", "ok", "failed"}
ConnOp(c) == c.op \in {"connect", "disconnect"} /\ Running(c)

\* a settled call keeps its result and what it reported, not its locals
Settled(c) == [c EXCEPT !.tgt = None, !.len = 0, !.i = 0]
Fail(c, e) == [Settled(c) EXCEPT !.pc = "failed", !.err = e]
Ok(c) == [Settled(c) EXCEPT !.pc = "ok"]
Await(c, what, dev) == [c EXCEPT !.pc = what, !.tgt = dev]

\* history: the call has completed (or, for a chunk write, issued) an event
Log(c, kind, a, b) == [c EXCEPT !.log = Append(@, <<kind, a, b>>)]

\* --------------------------------------------------------- native drivers
\* The native modules are not part of the repository.  A call on a device
\* may always throw; it can only succeed if the device is in a state in
\* which the driver can serve it.
CanSucceed(kind, dev) ==
    CASE kind = "openDevice" -> drv[dev] # "closed"
      [] kind \in {"writeBase64", "setDTR1", "setRTS1", "setDTR2", "setRTS2",
                   "resetDTR1", "resetDTR2", "startNotification"} -> drv[dev] = "open"
      [] OTHER -> TRUE

DrvAfter(kind, dev) ==
    CASE kind = "connectDevice" ->
            [drv EXCEPT ![dev] = IF @ = "closed" THEN "conn" ELSE @]
      [] kind = "openDevice" -> [drv EXCEPT ![dev] = "open"]
      [] kind = "closeDevice" ->
            [drv EXCEPT ![dev] = IF @ = "open" THEN "conn" ELSE @]
      [] kind = "disconnectDevice" -> [drv EXCEPT ![dev] = "closed"]
      [] kind = "connectToDevice" -> [drv EXCEPT ![dev] = "open"]
      [] kind = "disconnectFromDevice" -> [drv EXCEPT ![dev] = "closed"]
      [] OTHER -> drv

\* --------------------------------------------------- disconnectFromBoard
\* lines 360-373, from the entry to the first await or the return.
\* Result: <<connectedDevice, connectionType, "await" | "returned", call>>
DisconnectSync(c, cd, ct) ==
    IF cd = None THEN <<cd, ct, "returned", c>>
    ELSE IF ct = "usb" /\ UsbSerial THEN <<cd, ct, "await", Await(c, "closeDevice", cd)>>
    ELSE IF ct = "ble" /\ BleManager THEN <<cd, ct, "await", Await(c, "disconnectFromDevice", cd)>>
    ELSE <<None, None, "returned", c>>

\* a disconnectFromBoard that forgets to clear the connection fields
DisconnectAfter_KeepsFields(c, cd, ct, ok) ==
    IF ~ok THEN <<cd, ct, "thrown", [c EXCEPT !.err = "DriverError"]>>
    ELSE IF c.pc = "closeDevice"
    THEN IF cd = None
         THEN <<cd, ct, "thrown", [c EXCEPT !.err = "TypeError"]>>
         ELSE <<cd, ct, "await", [c EXCEPT !.pc = "disconnectDevice", !.tgt = cd]>>
    ELSE <<cd, ct, "returned", c>>

\* lines 365-373, resumed after the pending teardown call completed (ok) or
\* threw.  Result as above, or "thrown" with the error in the call record.
DisconnectAfter(c, cd, ct, ok) ==
    IF ~ok THEN <<cd, ct, "thrown", [c EXCEPT !.err = "DriverError"]>>
    ELSE IF c.pc = "closeDevice"
    THEN IF DerefFails(cd)
         THEN <<cd, ct, "thrown", [c EXCEPT !.err = "TypeError"]>>
         ELSE <<cd, ct, "await", Await(c, "disconnectDevice", cd)>>
    ELSE <<None, None, "returned", c>>

\* --------------------------------------------------------- connectToBoard
\* the data listeners after the first successful connectToBoard(cd)
ListenersFor(cd) ==
    [usb |-> BoardType(cd) = "usb", ble |-> IF BoardType(cd) = "ble" THEN 1 ELSE 0]

\* UsbSerial.setDataListener (line 316) sets the one listener of the driver;
\* BleManager.addListener (line 332) adds one on every connect, and nothing
\* ever removes it
ListenersAfter(pc, ok) ==
    IF ok /\ pc = "openDevice" THEN [listeners EXCEPT !.usb = TRUE]
    ELSE IF ok /\ pc = "startNotification"
    THEN [listeners EXCEPT !.ble = IF @ < MaxListeners THEN @ + 1 ELSE @]
    ELSE listeners

\* lines 308-344: the branch on board.type, up to the first await or return.
\* Result: <<connectedDevice, connectionType, call>>
ConnectOpen(c, cd, ct) ==
    IF BoardType(c.board) = "usb" /\ UsbSerial
    THEN <<cd, ct, Await(c, "connectDevice", c.board)>>
    ELSE IF BoardType(c.board) = "ble" /\ BleManager
    THEN <<cd, ct, Await(c, "connectToDevice", c.board)>>
    ELSE IF BoardType(c.board) = "wifi" /\ EspOta
    THEN <<c.board, "wifi", Ok(c)>>
    ELSE <<None, None, Fail(c, "UnsupportedBoardType")>>

\* a catch block that resets this.connectedDevice only
ConnectCatch_KeepsType(c, e) == <<None, connectionType, Fail(c, e)>>

\* a catch block that rethrows without resetting the connection fields
ConnectCatch_KeepsFields(c, e) == <<connectedDevice, connectionType, Fail(c, e)>>

\* lines 345-350: the catch block of connectToBoard
ConnectCatch(c, e) == <<None, None, Fail(c, e)>>

\* history: an upload that still has chunks to issue when a disconnect completes
ChunksRemain(c) ==
    /\ c.op = "upload"
    /\ \/ c.pc = "delay" /\ c.i + 1 < c.totalChunks
       \/ c.pc = "writeBase64" /\ c.i + 1 < c.totalChunks

\* history: the chunks of an upload written or in flight
Issued(c) == Len(c.progress) + (IF c.pc = "writeBase64" THEN 1 ELSE 0)

MarkOther(c, disc, connStart) ==
    [c EXCEPT !.lostAt = IF @ < 0 /\ disc /\ ChunksRemain(c) THEN Issued(c) ELSE @,
              !.solo = @ /\ ~(connStart /\ ConnOp(c))]

\* the state after one step of slot p: r = <<connectedDevice, connectionType, call>>
Apply(p, r, disc, connStart) ==
    /\ connectedDevice' = r[1]
    /\ connectionType' = r[2]
    /\ calls' = [q \in Calls |->
                    IF q = p THEN r[3] ELSE MarkOther(calls[q], disc, connStart)]

\* connectToBoard(board): lines 302-308, the call up to its first await
connectToBoard(p, b) ==
    /\ calls[p].pc = "idle"
    /\ LET c0 == [IdleCall EXCEPT !.op = "connect", !.board = b,
                                  !.prev = connectedDevice,
                                  !.solo = \A q \in Calls \ {p} : ~ConnOp(calls[q])]
           d == IF NeedsDisconnect(connectedDevice)
                THEN DisconnectSync(c0, connectedDevice, connectionType)
                ELSE <<connectedDevice, connectionType, "returned", c0>>
           r == IF d[3] = "returned" THEN ConnectOpen(d[4], d[1], d[2])
                ELSE <<d[1], d[2], d[4]>>
       IN Apply(p, r, d[3] = "returned" /\ connectedDevice # None, TRUE)
    /\ UNCHANGED <<platform, drv, faulted, compileVars, auxVars>>

\* connectToBoard resumed after an await
connectResume(p, ok) ==
    LET c == calls[p] IN
    /\ c.op = "connect" /\ Running(c)
    /\ ok => CanSucceed(c.pc, c.tgt)
    /\ drv' = IF ok THEN DrvAfter(c.pc, c.tgt) ELSE drv
    /\ faulted' = (faulted \/ ~ok)
    /\ \/ /\ c.pc \in {"closeDevice", "disconnectDevice", "disconnectFromDevice"}
          /\ LET d == DisconnectAfter(c, connectedDevice, connectionType, ok)
                 r == CASE d[3] = "returned" -> ConnectOpen(d[4], d[1], d[2])
                        [] d[3] = "thrown" -> ConnectCatch(d[4], d[4].err)
                        [] OTHER -> <<d[1], d[2], d[4]>>
             IN Apply(p, r, d[3] = "returned", FALSE)
       \/ /\ c.pc = "connectDevice"
          /\ Apply(p, IF ok THEN <<connectedDevice, connectionType,
                                   Await(c, "openDevice", c.board)>>
                            ELSE ConnectCatch(c, "DriverError"), FALSE, FALSE)
       \/ /\ c.pc = "openDevice"
          /\ Apply(p, IF ok THEN <<c.board, "usb", Ok(c)>>
                            ELSE ConnectCatch(c, "DriverError"), FALSE, FALSE)
       \/ /\ c.pc = "connectToDevice"
          /\ Apply(p, IF ok THEN <<c.board, "ble", Await(c, "startNotification", c.board)>>
                            ELSE ConnectCatch(c, "DriverError"), FALSE, FALSE)
       \/ /\ c.pc = "startNotification"
          /\ Apply(p, IF ok THEN <<connectedDevice, connectionType, Ok(c)>>
                            ELSE ConnectCatch(c, "DriverError"), FALSE, FALSE)
    /\ listeners' = ListenersAfter(c.pc, ok)
    /\ UNCHANGED <<platform, compileVars, registryVars, serialMonitorCallbacks,
                   arrived, delivered, thrown, screenVars>>

\* disconnectFromBoard(): lines 358-369, the call up to its first await
disconnectFromBoard(p) ==
    /\ calls[p].pc = "idle"
    /\ LET c0 == [IdleCall EXCEPT !.op = "disconnect", !.prev = connectedDevice,
                                  !.solo = \A q \in Calls \ {p} : ~ConnOp(calls[q])]
           d == DisconnectSync(c0, connectedDevice, connectionType)
           r == IF d[3] = "returned" THEN <<d[1], d[2], Ok(d[4])>>
                ELSE <<d[1], d[2], d[4]>>
       IN Apply(p, r, d[3] = "returned" /\ connectedDevice # None, TRUE)
    /\ UNCHANGED <<platform, drv, faulted, compileVars, auxVars>>

\* disconnectFromBoard resumed after an await (lines 365-377)
disconnectResume(p, ok) ==
    LET c == calls[p] IN
    /\ c.op = "disconnect" /\ Running(c)
    /\ ok => CanSucceed(c.pc, c.tgt)
    /\ drv' = IF ok THEN DrvAfter(c.pc, c.tgt) ELSE drv
    /\ faulted' = (faulted \/ ~ok)
    /\ LET d == DisconnectAfter(c, connectedDevice, connectionType, ok)
           r == CASE d[3] = "returned" -> <<d[1], d[2], Ok(d[4])>>
                  [] d[3] = "thrown" -> <<d[1], d[2], Fail(d[4], d[4].err)>>
                  [] OTHER -> <<d[1], d[2], d[4]>>
       IN Apply(p, r, d[3] = "returned", FALSE)
    /\ UNCHANGED <<platform, compileVars, auxVars>>

\* ----------------------------------------------------------- uploadBinary
\* Issue a driver call on `this.connectedDevice.id` (throws if it is null).
\* Result: the call record.
IssueOn(c, cd, what) ==
    IF DerefFails(cd) THEN Fail(c, "TypeError") ELSE Await(c, what, cd)

\* a chunk loop whose slices overlap by one character
Chunk_Overlapping(c) ==
    <<c.i * (c.chunkSize - 1),
      IF c.len - c.i * (c.chunkSize - 1) < c.chunkSize
      THEN c.len - c.i * (c.chunkSize - 1) ELSE c.chunkSize>>

\* `binary.substr(i * chunkSize, chunkSize)` (lines 419, 447) as
\* <<first position, number of characters>>
Chunk(c) ==
    <<c.i * c.chunkSize,
      IF c.len - c.i * c.chunkSize < c.chunkSize
      THEN c.len - c.i * c.chunkSize ELSE c.chunkSize>>

\* a chunk loop that is not followed by the reset of the board
LoopHead_NoReset(c, cd) ==
    IF c.i < c.totalChunks
    THEN IssueOn(IF DerefFails(cd) THEN c
                 ELSE Log(c, "writeBase64", Chunk(c)[1], Chunk(c)[2]), cd, "writeBase64")
    ELSE Ok(c)

\* the head of the chunk loop (lines 418-420 / 446-448) and what follows
\* the loop (lines 429-434 / 462)
LoopHead(c, cd) ==
    IF c.i < c.totalChunks
    THEN IssueOn(IF DerefFails(cd) THEN c
                 ELSE Log(c, "writeBase64", Chunk(c)[1], Chunk(c)[2]), cd, "writeBase64")
    ELSE IF c.chunkSize = UsbChunkSize
         THEN IssueOn(c, cd, "resetDTR1")
         ELSE Ok(c)

\* lines 412-416 / 440-444: the file is read as Base64 text and split
AfterRead(c, chunkSize) ==
    [c EXCEPT !.chunkSize = chunkSize,
              !.len = Base64Length(c.file),
              !.totalChunks = TotalChunks(Base64Length(c.file), chunkSize),
              !.i = 0]

\* network targets as getAvailableBoards builds them from the registry
\* (lines 276-288): w1 was registered with a port, w2 without one
OtaTargets == {"w1", "w2"}

\* `board.details` of a network target; port 0 stands for no port
Details(b) ==
    IF b = "w1" THEN [ip |-> "192.168.1.50", port |-> 3232]
    ELSE [ip |-> "10.0.0.7", port |-> 0]

\* an OTA call that passes the registered port on as it is
OtaPort_NoDefault(d) == d.port

\* `this.connectedDevice.details.port || 8266` (line 467)
OtaPort(d) == IF d.port = 0 THEN 8266 ELSE d.port

\* lines 465-470: the call of EspOta.uploadBinary.  Result: the call record,
\* with the call and its arguments in the history field `ota`.
OtaCall(c, cd) ==
    IF DerefFails(cd) THEN Fail(c, "TypeError")
    ELSE Await([c EXCEPT !.ota = Append(@, [host |-> Details(cd).ip,
                                            port |-> OtaPort(Details(cd)),
                                            result |-> "pending"])],
               "otaUpload", cd)

\* history: the pending OTA call, if there is one, resolved or rejected
OtaResult(c, r) ==
    IF c.pc = "otaUpload" THEN [c EXCEPT !.ota[Len(c.ota)].result = r] ELSE c

\* an upload that skips the bootloader entry on the wired transport
UploadBranch_SkipsBootloader(c, cd, ct) ==
    IF ct = "usb" /\ UsbSerial THEN Await([c EXCEPT !.via = "usb"], "readUsb", None)
    ELSE IF ct = "ble" /\ BleManager THEN Await([c EXCEPT !.via = "ble"], "readBle", None)
    ELSE IF ct = "wifi" /\ EspOta
    THEN OtaCall([c EXCEPT !.via = "wifi"], cd)
    ELSE Fail(c, "UnsupportedConnectionType")

\* lines 399-473: the branch on this.connectionType after the file check
UploadBranch(c, cd, ct) ==
    IF ct = "usb" /\ UsbSerial THEN IssueOn([c EXCEPT !.via = "usb"], cd, "setDTR1")
    ELSE IF ct = "ble" /\ BleManager THEN Await([c EXCEPT !.via = "ble"], "readBle", None)
    ELSE IF ct = "wifi" /\ EspOta THEN OtaCall([c EXCEPT !.via = "wifi"], cd)
    ELSE Fail(c, "UnsupportedConnectionType")

\* a catch that swallows the error of a chunk write and goes on with the loop
UploadCatch_Resumes(c, e) == [c EXCEPT !.pc = "delay", !.tgt = None]

\* lines 474-477: the catch block of uploadBinary logs and rethrows
UploadCatch(c, e) == Fail(c, e)

\* uploadBinary(binaryPath, progressCallback): lines 387-394
uploadBinary(p, f) ==
    /\ calls[p].pc = "idle"
    /\ LET c0 == [IdleCall EXCEPT !.op = "upload", !.file = f, !.prev = connectedDevice]
           c1 == IF NoBoardConnected(connectedDevice)
                 THEN Fail(c0, "NoBoardConnected")
                 ELSE Await(c0, "getInfoAsync", None)
       IN Apply(p, <<connectedDevice, connectionType, c1>>, FALSE, FALSE)
    /\ UNCHANGED <<platform, drv, faulted, compileVars, auxVars>>

\* uploadBinary resumed after an await
uploadResume(p, ok) ==
    LET c == calls[p]
        cd == connectedDevice
        Next1(c1) == Apply(p, <<connectedDevice, connectionType, c1>>, FALSE, FALSE)
    IN
    /\ c.op = "upload" /\ Running(c)
    /\ ok => CanSucceed(c.pc, c.tgt)
    /\ faulted' = (faulted \/ ~ok)
    /\ \/ /\ c.pc = "getInfoAsync" /\ ok
          /\ Next1(IF c.file = NoFile THEN Fail(c, "BinaryNotFound")
                   ELSE UploadBranch(c, cd, connectionType))
       \/ /\ c.pc \in {"setDTR1", "setRTS1", "setDTR2", "setRTS2", "writeBase64",
                       "resetDTR1", "resetDTR2", "otaUpload"}
          /\ ~ok
          /\ Next1(UploadCatch(OtaResult(c, "rejected"), "DriverError"))
       \/ /\ c.pc = "setDTR1" /\ ok
          /\ Next1(IssueOn(Log(c, "setDTR", 0, 0), cd, "setRTS1"))
       \/ /\ c.pc = "setRTS1" /\ ok
          /\ Next1(Await(Log(c, "setRTS", 1, 0), "hold1", None))
       \/ /\ c.pc = "hold1" /\ ok
          /\ Next1(IssueOn(Log(c, "hold", 250, 0), cd, "setDTR2"))
       \/ /\ c.pc = "setDTR2" /\ ok
          /\ Next1(Await(Log(c, "setDTR", 1, 0), "hold2", None))
       \/ /\ c.pc = "hold2" /\ ok
          /\ Next1(IssueOn(Log(c, "hold", 50, 0), cd, "setRTS2"))
       \/ /\ c.pc = "setRTS2" /\ ok
          /\ Next1(Await(Log(c, "setRTS", 0, 0), "readUsb", None))
       \/ /\ c.pc = "readUsb" /\ ok /\ Next1(LoopHead(AfterRead(c, UsbChunkSize), cd))
       \/ /\ c.pc = "readBle" /\ ok /\ Next1(LoopHead(AfterRead(c, BleChunkSize), cd))
       \/ /\ c.pc = "writeBase64" /\ ok
          /\ Next1(Await([Log(Log(c, "written", c.i + 1, 0),
                              "progress", c.i + 1, c.totalChunks)
                             EXCEPT !.progress = Append(@, <<c.i + 1, c.totalChunks>>)],
                         "delay", None))
       \/ /\ c.pc = "delay" /\ ok
          /\ Next1(LoopHead([Log(c, "delay", IF c.via = "usb" THEN 10 ELSE 50, 0)
                                EXCEPT !.i = @ + 1], cd))
       \/ /\ c.pc = "resetDTR1" /\ ok
          /\ Next1(Await(Log(c, "setDTR", 0, 0), "resetHold", None))
       \/ /\ c.pc = "resetHold" /\ ok
          /\ Next1(IssueOn(Log(c, "hold", 250, 0), cd, "resetDTR2"))
       \/ /\ c.pc = "resetDTR2" /\ ok /\ Next1(Ok(Log(c, "setDTR", 1, 0)))
       \/ /\ c.pc = "otaUpload" /\ ok /\ Next1(Ok(OtaResult(c, "resolved")))
    /\ UNCHANGED <<platform, drv, compileVars, auxVars>>

\* The user asks to cancel the running upload (spec 4.3, 6: cancelUpload).
\* The service offers no such entry point and uploadBinary reads no
\* cancellation flag, so the request is recorded and nothing else changes.
requestCancel(p) ==
    /\ calls[p].op = "upload"
    /\ calls[p].pc \in {"writeBase64", "delay"}
    /\ calls[p].cancelAt < 0
    /\ calls' = [calls EXCEPT ![p].cancelAt = Issued(calls[p])]
    /\ UNCHANGED <<platform, connectedDevice, connectionType, drv, faulted, compileVars, auxVars>>

\* ------------------------------------------------------------ compile flow
\* the one compilation id of a run
JobId == "job"

Tasks == 0..MaxTicks
TickTasks == 1..MaxTicks

IdleTask == [pc |-> "idle", binaries |-> <<>>]

\* the screen before compileCode is pressed
CompileIdle ==
    /\ serverStatus = None
    /\ isCompiling = FALSE
    /\ compilationResult = None
    /\ pollInterval = FALSE
    /\ tasks = [t \in Tasks |-> IdleTask]
    /\ compiled_binaries = <<>>
    /\ downloads = 0
    /\ terminalSeen = FALSE
    /\ failures = 0

\* `status.status === 'completed' || status.status === 'failed'` (line 159)
Terminal(st) == st \in {"completed", "failed"}

\* `result.status === 'queued' || result.status === 'compiling'` (line 154)
Pending(st) == st \in {"queued", "compiling"}

TaskAt(t, pc) == [tasks EXCEPT ![t].pc = pc]

\* where a task rests when its async function has returned or thrown
Rest(t) == IF t = 0 THEN "done" ELSE "idle"

\* compileCode pressed (lines 138-144; the button is disabled while isCompiling)
compileCode ==
    /\ tasks[0].pc = "idle" /\ ~isCompiling /\ serverStatus = None
    /\ isCompiling' = TRUE
    /\ compilationResult' = None
    /\ tasks' = TaskAt(0, "saveProject")
    /\ UNCHANGED <<boardVars, auxVars, failures, serverStatus, pollInterval, compiled_binaries,
                   downloads, terminalSeen>>

\* saveProject returned (it catches its own errors); the compile request is sent
saveProjectDone ==
    /\ tasks[0].pc = "saveProject"
    /\ tasks' = TaskAt(0, "compileCode")
    /\ UNCHANGED <<boardVars, auxVars, failures, serverStatus, isCompiling, compilationResult, pollInterval,
                   compiled_binaries, downloads, terminalSeen>>

\* the answer to POST /v1/compile (lines 147-195); r = "error": the request threw
compileResponse(r) ==
    /\ tasks[0].pc = "compileCode"
    /\ serverStatus' = IF r = "error" THEN serverStatus ELSE r
    /\ pollInterval' = Pending(r)
    /\ isCompiling' = Pending(r)
    /\ compilationResult' = IF Terminal(r) THEN r ELSE compilationResult
    /\ tasks' = TaskAt(0, IF r = "completed" THEN "downloadAsync" ELSE "done")
    /\ UNCHANGED <<boardVars, auxVars, failures, compiled_binaries, downloads, terminalSeen>>

\* the remote toolchain advances the job
serverProgress ==
    /\ \/ serverStatus = "queued" /\ serverStatus' = "compiling"
       \/ serverStatus = "compiling" /\ serverStatus' \in {"completed", "failed"}
    /\ UNCHANGED <<boardVars, auxVars, failures, isCompiling, compilationResult, pollInterval, tasks,
                   compiled_binaries, downloads, terminalSeen>>

\* the interval timer fires (lines 156-157): a new callback asks for the status
tick(t) ==
    /\ pollInterval
    /\ tasks[t].pc = "idle"
    /\ tasks' = TaskAt(t, "getCompilationStatus")
    /\ UNCHANGED <<boardVars, auxVars, failures, serverStatus, isCompiling, compilationResult, pollInterval,
                   compiled_binaries, downloads, terminalSeen>>

\* the status request of a timer callback returns (lines 157-173)
statusResponse(t, ok) ==
    /\ tasks[t].pc = "getCompilationStatus"
    /\ IF ok /\ Terminal(serverStatus)
       THEN /\ pollInterval' = FALSE
            /\ compilationResult' = serverStatus
            /\ isCompiling' = FALSE
            /\ terminalSeen' = TRUE
            /\ tasks' = TaskAt(t, IF serverStatus = "completed" THEN "downloadAsync"
                                  ELSE Rest(t))
       ELSE /\ tasks' = TaskAt(t, Rest(t))
            /\ UNCHANGED <<pollInterval, compilationResult, isCompiling, terminalSeen>>
    /\ failures' = IF ok THEN 0
                   ELSE IF failures < RetryLimit THEN failures + 1 ELSE failures
    /\ UNCHANGED <<boardVars, auxVars, serverStatus, compiled_binaries, downloads>>

\* downloadBinary resumed after an await (lines 111-131).  The awaits before
\* the transfer (auth token, directory) touch nothing modelled and are part
\* of the step that enters "downloadAsync".
downloadResume(t, ok) ==
    /\ tasks[t].pc \in {"downloadAsync", "getItem", "dlGetCompilationStatus", "setItem"}
    /\ IF ~ok
       THEN \* the await threw: compileCode's catch (lines 190-194), or the
            \* timer callback's rejection is unhandled
            /\ tasks' = [tasks EXCEPT ![t] = [IdleTask EXCEPT !.pc = Rest(t)]]
            /\ isCompiling' = IF t = 0 THEN FALSE ELSE isCompiling
            /\ UNCHANGED <<compiled_binaries, downloads>>
       ELSE /\ tasks' =
                 CASE tasks[t].pc = "downloadAsync" -> TaskAt(t, "getItem")
                   [] tasks[t].pc = "getItem" ->
                        [tasks EXCEPT ![t] = [pc |-> "dlGetCompilationStatus",
                                              binaries |-> compiled_binaries]]
                   [] tasks[t].pc = "dlGetCompilationStatus" ->
                        [tasks EXCEPT ![t] = [pc |-> "setItem",
                                              binaries |-> Append(@.binaries, JobId)]]
                   [] OTHER -> [tasks EXCEPT ![t] = [IdleTask EXCEPT !.pc = Rest(t)]]
            /\ downloads' = IF tasks[t].pc = "downloadAsync" THEN downloads + 1
                            ELSE downloads
            /\ compiled_binaries' = IF tasks[t].pc = "setItem" THEN tasks[t].binaries
                                    ELSE compiled_binaries
            /\ UNCHANGED isCompiling
    /\ UNCHANGED <<boardVars, auxVars, failures, serverStatus, compilationResult, pollInterval, terminalSeen>>

NextCompile ==
    \/ compileCode
    \/ saveProjectDone
    \/ \E r \in {"queued", "compiling", "completed", "failed", "error"} : compileResponse(r)
    \/ serverProgress
    \/ \E t \in TickTasks : tick(t)
    \/ \E t \in TickTasks, ok \in BOOLEAN : statusResponse(t, ok)
    \/ \E t \in Tasks, ok \in BOOLEAN : downloadResume(t, ok)

\* the caller takes the result of a settled call; the slot is free again
settle(p) ==
    /\ calls[p].pc \in {"ok", "failed"}
    /\ calls' = [calls EXCEPT ![p] = IdleCall]
    /\ UNCHANGED <<platform, connectedDevice, connectionType, drv, faulted, compileVars, auxVars>>

\* ----------------------------------------------------------------- sendData
\* a sendData without its connection check
NotConnected_Never(cd) == FALSE

\* `if (!this.connectedDevice)` of sendData (line 488)
NotConnected(cd) == cd = None

\* lines 492-503: the branch on this.connectionType.  Result: the call record.
SendBranch(c, cd, ct) ==
    IF ct = "usb" /\ UsbSerial THEN Await(c, "write", cd)
    ELSE IF ct = "ble" /\ BleManager THEN Await(c, "write", cd)
    ELSE Fail(c, "CannotSend")

\* sendData(data): lines 486-503, up to the await or the throw
sendData(p) ==
    /\ calls[p].pc = "idle"
    /\ LET c0 == [IdleCall EXCEPT !.op = "send"]
           c1 == IF NotConnected(connectedDevice)
                 THEN Fail(c0, "NoBoardConnected")
                 ELSE SendBranch(c0, connectedDevice, connectionType)
       IN Apply(p, <<connectedDevice, connectionType, c1>>, FALSE, FALSE)
    /\ UNCHANGED <<platform, drv, faulted, compileVars, auxVars>>

\* sendData resumed after UsbSerial.write / BleManager.write (lines 493-509)
sendResume(p, ok) ==
    LET c == calls[p] IN
    /\ c.op = "send" /\ c.pc = "write"
    /\ ok => drv[c.tgt] = "open"
    /\ faulted' = (faulted \/ ~ok)
    /\ Apply(p, <<connectedDevice, connectionType,
                  IF ok THEN Ok(c) ELSE Fail(c, "DriverError")>>, FALSE, FALSE)
    /\ UNCHANGED <<platform, drv, compileVars, auxVars>>

\* the serial monitor callbacks a screen may register
Callbacks == {"serialCallback"}

\* the handlers of the fan-out specification
Handlers == {"h1", "h2"}

\* addSerialMonitorCallback(callback): lines 517-519
addSerialMonitorCallback(cb) ==
    /\ Len(serialMonitorCallbacks) < MaxCallbacks
    /\ serialMonitorCallbacks' = Append(serialMonitorCallbacks, cb)
    /\ UNCHANGED <<boardVars, compileVars, registryVars, monitorVars, screenVars>>

\* `this.serialMonitorCallbacks.indexOf(callback)`; 0 stands for -1
IndexOf(list, cb) ==
    IF \E k \in 1..Len(list) : list[k] = cb
    THEN CHOOSE k \in 1..Len(list) : list[k] = cb /\ \A j \in 1..(k - 1) : list[j] # cb
    ELSE 0

\* removeSerialMonitorCallback(callback): lines 526-531
removeSerialMonitorCallback(cb) ==
    /\ serialMonitorCallbacks' =
          IF IndexOf(serialMonitorCallbacks, cb) # 0
          THEN SubSeq(serialMonitorCallbacks, 1, IndexOf(serialMonitorCallbacks, cb) - 1)
               \o SubSeq(serialMonitorCallbacks, IndexOf(serialMonitorCallbacks, cb) + 1,
                         Len(serialMonitorCallbacks))
          ELSE serialMonitorCallbacks
    /\ UNCHANGED <<boardVars, compileVars, registryVars, monitorVars, screenVars>>

\* ------------------------------------------------------------ data fan-out
\* `this.serialMonitorCallbacks.forEach(callback => callback(data))`
\* (lines 317, 333): the callbacks are called in list order; a callback that
\* throws ends the forEach.  d: what each handler has been called with.
RECURSIVE ForEach(_, _, _, _)
ForEach(list, data, throws, d) ==
    IF list = <<>> THEN d
    ELSE IF Head(list) \in throws
         THEN [d EXCEPT ![Head(list)] = Append(@, data)]
         ELSE ForEach(Tail(list), data, throws,
                      [d EXCEPT ![Head(list)] = Append(@, data)])

\* the callback whose exception leaves the forEach, None if none throws
Thrower(list, throws) ==
    IF \E k \in 1..Len(list) : list[k] \in throws
    THEN list[CHOOSE k \in 1..Len(list) :
                  list[k] \in throws /\ \A j \in 1..(k - 1) : list[j] \notin throws]
    ELSE None

\* the listeners the driver calls with a chunk from board b
ListenersOn(b) ==
    CASE BoardType(b) = "usb" -> IF listeners.usb THEN 1 ELSE 0
      [] BoardType(b) = "ble" -> listeners.ble
      [] OTHER -> 0

\* n listeners run their forEach one after the other
RECURSIVE Emit(_, _, _, _, _)
Emit(n, list, data, throws, d) ==
    IF n = 0 THEN d ELSE Emit(n - 1, list, data, throws, ForEach(list, data, throws, d))

\* the data listeners registered by connectToBoard (lines 316-318, 332-334)
\* are called with the next chunk; `throws`: the handlers that throw on it
dataListener(throws) ==
    /\ connectedDevice # None
    /\ drv[connectedDevice] = "open"
    /\ ListenersOn(connectedDevice) > 0
    /\ arrived < MaxArrivals
    /\ arrived' = arrived + 1
    /\ delivered' = Emit(ListenersOn(connectedDevice), serialMonitorCallbacks,
                         arrived + 1, throws, delivered)
    /\ thrown' = Thrower(serialMonitorCallbacks, throws)
    /\ UNCHANGED <<boardVars, compileVars, registryVars, serialMonitorCallbacks, listeners, screenVars>>

\* `indexOf(callback)` and `splice(index, 1)` of removeSerialMonitorCallback
\* (lines 527-530) on a list
Spliced(list, cb) ==
    IF IndexOf(list, cb) # 0
    THEN SubSeq(list, 1, IndexOf(list, cb) - 1) \o SubSeq(list, IndexOf(list, cb) + 1, Len(list))
    ELSE list

\* Array.prototype.forEach on this.serialMonitorCallbacks (lines 317, 333)
\* when a callback calls removeSerialMonitorCallback: the index k moves on
\* by one after every call and the visit ends at the end of the list as it
\* is then.  removes[h]: the callback h removes when it is called, or None.
\* Result: <<list, d>>.
RECURSIVE ForEachSplicing(_, _, _, _, _)
ForEachSplicing(list, k, data, removes, d) ==
    IF k > Len(list) THEN <<list, d>>
    ELSE ForEachSplicing(IF removes[list[k]] = None THEN list
                         ELSE Spliced(list, removes[list[k]]),
                         k + 1, data, removes,
                         [d EXCEPT ![list[k]] = Append(@, data)])

\* the data listener is called with the next chunk and the handlers
\* unsubscribe handlers while they are called
dataListenerSplicing(removes) ==
    /\ connectedDevice # None
    /\ drv[connectedDevice] = "open"
    /\ ListenersOn(connectedDevice) = 1
    /\ arrived < MaxArrivals
    /\ arrived' = arrived + 1
    /\ LET r == ForEachSplicing(serialMonitorCallbacks, 1, arrived + 1, removes, delivered)
       IN serialMonitorCallbacks' = r[1] /\ delivered' = r[2]
    /\ thrown' = None
    /\ UNCHANGED <<boardVars, compileVars, registryVars, listeners, screenVars>>

\* ---------------------------------------------------------- device registry
\* concurrently usable slots for addEspDevice / removeEspDevice
RegCalls == 1..NumRegCalls

\* a device name as the words it contains; <<>> is the empty text
ShedName == <<"Shed", "ESP">>

\* hosts a registration may name
Hosts == {"192.168.1.50", "10.0.0.7", "999.1.1.1", "shed"}

\* the decimal fields of a host text split at the dots (<<>>: none)
Octets(h) ==
    CASE h = "192.168.1.50" -> <<192, 168, 1, 50>>
      [] h = "10.0.0.7" -> <<10, 0, 0, 7>>
      [] h = "999.1.1.1" -> <<999, 1, 1, 1>>
      [] OTHER -> <<>>

\* `/^(\d{1,3}\.){3}\d{1,3}$/.test(espIp)` of the BoardSelector form
MatchesIpPattern(h) ==
    /\ Len(Octets(h)) = 4
    /\ \A k \in 1..4 : Octets(h)[k] \in 0..999

\* parseInt of a text that is no number
NaN == 0 - 1

\* `isNaN(port) || port < 1 || port > 65535` of the BoardSelector form
PortRejected(port) == port = NaN \/ port < 1 \/ port > 65535

\* the devices a caller of addEspDevice may pass
Devices ==
    {[name |-> ShedName, ip |-> "192.168.1.50", port |-> 8266],
     [name |-> <<"Lab">>, ip |-> "999.1.1.1", port |-> 65536]}

\* what the user may type into the form (espName, espIp, parsed espPort)
FormInputs ==
    {[name |-> ShedName, ip |-> "192.168.1.50", port |-> 8266],
     [name |-> <<"Lab">>, ip |-> "999.1.1.1", port |-> 8266],
     [name |-> <<>>, ip |-> "10.0.0.7", port |-> 8266],
     [name |-> <<"Lab">>, ip |-> "shed", port |-> 8266],
     [name |-> <<"Lab">>, ip |-> "10.0.0.7", port |-> 65536],
     [name |-> <<"Lab">>, ip |-> "10.0.0.7", port |-> NaN]}

NoDevice == [name |-> <<>>, ip |-> None, port |-> 0]
NoPort == 0

IdleReg == [op |-> "idle", pc |-> "idle", device |-> NoDevice, espDevices |-> <<>>]
IdleScan ==
    [pc |-> "idle", boards |-> <<>>, err |-> None, must |-> {},
     \* history: what the two drivers resolved to in this scan
     usb |-> <<>>, ble |-> <<>>]

\* the registry and the subscriber list before any call
AuxIdle ==
    /\ esp_devices = <<>>
    /\ regs = [r \in RegCalls |-> IdleReg]
    /\ scan = IdleScan
    /\ registered = [h \in Hosts |-> NoPort]
    /\ serialMonitorCallbacks = <<>>
    /\ arrived = 0
    /\ delivered = [h \in Handlers |-> <<>>]
    /\ thrown = None

\* `espDevices.findIndex(d => d.ip === device.ip)`; 0 stands for -1
FindIndex(list, ip) ==
    IF \E k \in 1..Len(list) : list[k].ip = ip
    THEN CHOOSE k \in 1..Len(list) :
            list[k].ip = ip /\ \A j \in 1..(k - 1) : list[j].ip # ip
    ELSE 0

\* an addEspDevice that appends without looking for the host
Upsert_Appends(list, device) == Append(list, device)

\* lines 545-550: replace the entry of the same ip (spread merge) or append
Upsert(list, device) ==
    IF FindIndex(list, device.ip) # 0
    THEN [list EXCEPT ![FindIndex(list, device.ip)] = device]
    ELSE Append(list, device)

\* `espDevices.filter(d => d.ip !== ip)` (line 571)
RECURSIVE FilterOut(_, _)
FilterOut(list, ip) ==
    IF list = <<>> THEN <<>>
    ELSE IF Head(list).ip = ip THEN FilterOut(Tail(list), ip)
    ELSE <<Head(list)>> \o FilterOut(Tail(list), ip)

\* history: a registration of host h changed; scans in flight owe nothing for h
Forget(h) == [scan EXCEPT !.must = {m \in @ : m[1] # h}]

\* addEspDevice(device): lines 539-541, up to the first await
addEspDevice(r, device) ==
    /\ regs[r].pc = "idle"
    /\ regs' = [regs EXCEPT ![r] = [IdleReg EXCEPT !.op = "add", !.pc = "getItem",
                                                   !.device = device]]
    /\ UNCHANGED <<boardVars, compileVars, esp_devices, scan, registered,
                   serialMonitorCallbacks, monitorVars, screenVars>>

\* BoardSelector.handleAddEspDevice: the form validates, then hands the
\* device to onAddEspDevice (EditorScreen: BoardCommunicationService.addEspDevice)
handleAddEspDevice(r, input) ==
    /\ input.name # <<>>
    /\ MatchesIpPattern(input.ip)
    /\ ~PortRejected(input.port)
    /\ addEspDevice(r, input)

\* removeEspDevice(ip): lines 566-568, up to the first await
removeEspDevice(r, ip) ==
    /\ regs[r].pc = "idle"
    /\ regs' = [regs EXCEPT ![r] = [IdleReg EXCEPT !.op = "remove", !.pc = "getItem",
                                                   !.device = [NoDevice EXCEPT !.ip = ip]]]
    /\ registered' = [registered EXCEPT ![ip] = NoPort]
    /\ scan' = Forget(ip)
    /\ UNCHANGED <<boardVars, compileVars, esp_devices, serialMonitorCallbacks, monitorVars, screenVars>>

\* addEspDevice / removeEspDevice resumed after AsyncStorage.getItem or
\* AsyncStorage.setItem (lines 541-557, 568-577)
registryResume(r, ok) ==
    LET c == regs[r] IN
    /\ c.pc \in {"getItem", "setItem"}
    /\ IF ~ok
       THEN /\ regs' = [regs EXCEPT ![r] = [IdleReg EXCEPT !.op = c.op, !.pc = "failed"]]
            /\ UNCHANGED <<esp_devices, registered, scan>>
       ELSE IF c.pc = "getItem"
       THEN /\ regs' = [regs EXCEPT ![r].pc = "setItem",
                                    ![r].espDevices =
                                        IF c.op = "add" THEN Upsert(esp_devices, c.device)
                                        ELSE FilterOut(esp_devices, c.device.ip)]
            /\ UNCHANGED <<esp_devices, registered, scan>>
       ELSE /\ esp_devices' = c.espDevices
            /\ regs' = [regs EXCEPT ![r] = [IdleReg EXCEPT !.op = c.op, !.pc = "ok"]]
            /\ registered' = IF c.op = "add"
                             THEN [registered EXCEPT ![c.device.ip] = c.device.port]
                             ELSE registered
            /\ scan' = IF c.op = "add" THEN Forget(c.device.ip) ELSE scan
    /\ UNCHANGED <<boardVars, compileVars, serialMonitorCallbacks, monitorVars, screenVars>>

\* the caller takes the result of a settled registry call
settleReg(r) ==
    /\ regs[r].pc \in {"ok", "failed"}
    /\ regs' = [regs EXCEPT ![r] = IdleReg]
    /\ UNCHANGED <<boardVars, compileVars, esp_devices, scan, registered,
                   serialMonitorCallbacks, monitorVars, screenVars>>

InitBoard ==
    /\ platform \in {"android", "ios"}
    /\ connectedDevice = None
    /\ connectionType = None
    /\ drv = [b \in Boards |-> "closed"]
    /\ faulted = FALSE
    /\ calls = [p \in Calls |-> IdleCall]
    /\ CompileIdle
    /\ AuxIdle
    /\ listeners = ListenersFor(connectedDevice)
    /\ connectedBoard = connectedDevice

NextBoard ==
    \E p \in Calls :
        \/ \E b \in Boards : connectToBoard(p, b)
        \/ \E ok \in BOOLEAN : connectResume(p, ok)
        \/ disconnectFromBoard(p)
        \/ \E ok \in BOOLEAN : disconnectResume(p, ok)
        \/ \E f \in SmallFiles : uploadBinary(p, f)
        \/ \E ok \in BOOLEAN : uploadResume(p, ok)
        \/ requestCancel(p)
        \/ settle(p)

SpecBoard == InitBoard /\ [][NextBoard]_vars

\* connections, the serial link and its subscribers (no uploads)
NextSerial ==
    \/ \E p \in Calls :
          \/ \E b \in Boards : connectToBoard(p, b)
          \/ \E ok \in BOOLEAN : connectResume(p, ok)
          \/ disconnectFromBoard(p)
          \/ \E ok \in BOOLEAN : disconnectResume(p, ok)
          \/ sendData(p)
          \/ \E ok \in BOOLEAN : sendResume(p, ok)
          \/ settle(p)
    \/ \E cb \in Callbacks : addSerialMonitorCallback(cb)
    \/ \E cb \in Callbacks : removeSerialMonitorCallback(cb)

SpecSerial == InitBoard /\ [][NextSerial]_vars

\* ----------------------------------------------------------------------
\* One upload at a time on an established connection, for every file size
\* up to MaxFileBytes.
Supported(b) ==
    \/ BoardType(b) = "usb" /\ UsbSerial
    \/ BoardType(b) = "ble" /\ BleManager
    \/ BoardType(b) = "wifi" /\ EspOta

InitUpload ==
    /\ platform \in {"android", "ios"}
    /\ connectedDevice \in {b \in Boards : Supported(b)}
    /\ connectionType = BoardType(connectedDevice)
    /\ drv = [b \in Boards |->
                IF b = connectedDevice /\ BoardType(b) # "wifi" THEN "open" ELSE "closed"]
    /\ faulted = FALSE
    /\ calls = [p \in Calls |-> IdleCall]
    /\ CompileIdle
    /\ AuxIdle
    /\ listeners = ListenersFor(connectedDevice)
    /\ connectedBoard = connectedDevice

NextUpload ==
    \/ \E f \in {NoFile} \cup (0..MaxFileBytes) : uploadBinary(1, f)
    \/ \E ok \in BOOLEAN : uploadResume(1, ok)
    \/ settle(1)

SpecUpload == InitUpload /\ [][NextUpload]_vars

\* the serial link of an established wired or wireless connection: inbound
\* data, the subscribers, and the disconnect
InitMonitor ==
    /\ platform \in {"android", "ios"}
    /\ connectedDevice \in {b \in Boards : Supported(b) /\ BoardType(b) # "wifi"}
    /\ connectionType = BoardType(connectedDevice)
    /\ drv = [b \in Boards |-> IF b = connectedDevice THEN "open" ELSE "closed"]
    /\ faulted = FALSE
    /\ calls = [p \in Calls |-> IdleCall]
    /\ CompileIdle
    /\ AuxIdle
    /\ listeners = ListenersFor(connectedDevice)
    /\ connectedBoard = connectedDevice

NextMonitor ==
    \/ \E p \in Calls :
          \/ disconnectFromBoard(p)
          \/ \E ok \in BOOLEAN : disconnectResume(p, ok)
          \/ settle(p)
    \/ \E cb \in Handlers : addSerialMonitorCallback(cb)
    \/ \E cb \in Handlers : removeSerialMonitorCallback(cb)
    \/ \E throws \in SUBSET Handlers : dataListener(throws)

SpecMonitor == InitMonitor /\ [][NextMonitor]_vars

\* uploads and sendData calls that share an established connection
NextLink ==
    \E p \in Calls :
        \/ \E f \in SmallFiles : uploadBinary(p, f)
        \/ \E ok \in BOOLEAN : uploadResume(p, ok)
        \/ sendData(p)
        \/ \E ok \in BOOLEAN : sendResume(p, ok)
        \/ settle(p)

SpecLink == InitUpload /\ [][NextLink]_vars

\* connections made and ended one after the other, with inbound data for
\* handlers that return
NextStream ==
    \/ \E b \in Boards : connectToBoard(1, b)
    \/ \E ok \in BOOLEAN : connectResume(1, ok)
    \/ disconnectFromBoard(1)
    \/ \E ok \in BOOLEAN : disconnectResume(1, ok)
    \/ settle(1)
    \/ \E cb \in Handlers : addSerialMonitorCallback(cb)
    \/ dataListener({})

SpecStream == InitBoard /\ [][NextStream]_vars

\* inbound data on an established connection for handlers that unsubscribe
\* handlers while they are called
NextResub ==
    \/ \E cb \in Handlers : addSerialMonitorCallback(cb)
    \/ \E cb \in Handlers : removeSerialMonitorCallback(cb)
    \/ \E removes \in [Handlers -> Handlers \cup {None}] : dataListenerSplicing(removes)

SpecResub == InitMonitor /\ [][NextResub]_vars

\* registry calls made one at a time, with any device the service accepts
NextRegistryOne ==
    \/ \E d \in Devices \cup FormInputs : addEspDevice(1, d)
    \/ \E h \in Hosts : removeEspDevice(1, h)
    \/ \E ok \in BOOLEAN : registryResume(1, ok)
    \/ settleReg(1)

SpecRegistryOne == InitBoard /\ [][NextRegistryOne]_vars

\* EditorScreen.connectToBoard (lines 198-208): the screen awaits the
\* service's connectToBoard
screenConnectToBoard(b) == connectToBoard(1, b)

\* ... and, when it has resolved, stores the board (line 201); when it has
\* rejected, the catch shows an alert (lines 204-207)
screenConnectDone ==
    /\ calls[1].op = "connect"
    /\ calls[1].pc \in {"ok", "failed"}
    /\ connectedBoard' = IF calls[1].pc = "ok" THEN calls[1].board ELSE connectedBoard
    /\ calls' = [calls EXCEPT ![1] = IdleCall]
    /\ UNCHANGED <<platform, connectedDevice, connectionType, drv, faulted, compileVars,
                   registryVars, serialMonitorCallbacks, monitorVars>>

NextScreen ==
    \/ \E b \in Boards : screenConnectToBoard(b)
    \/ \E ok \in BOOLEAN : connectResume(1, ok)
    \/ screenConnectDone

SpecScreen == InitBoard /\ [][NextScreen]_vars

\* one upload at a time on an established network connection
InitOta ==
    /\ platform \in {"android", "ios"}
    /\ connectedDevice \in OtaTargets
    /\ connectionType = "wifi"
    /\ drv = [b \in Boards |-> "closed"]
    /\ faulted = FALSE
    /\ calls = [p \in Calls |-> IdleCall]
    /\ CompileIdle
    /\ AuxIdle
    /\ listeners = ListenersFor(connectedDevice)
    /\ connectedBoard = connectedDevice

SpecOta == InitOta /\ [][NextUpload]_vars

SpecCompile == InitBoard /\ [][NextCompile]_vars

\* --------------------------------------------------------- getAvailableBoards
\* what UsbSerial.getDeviceList may resolve to
UsbLists ==
    {<<>>,
     <<[deviceId |-> "u1"]>>,
     <<[deviceId |-> "u1"], [deviceId |-> "u2"]>>,
     <<[deviceId |-> "u1"], [deviceId |-> "u1"]>>}

\* what BleManager.scanForPeripherals may resolve to (name: its words, or
\* <<>> for a peripheral that advertises none)
BleLists ==
    {<<>>,
     <<[id |-> "b1", name |-> <<"Arduino", "Nano">>]>>,
     <<[id |-> "hp", name |-> <<"Headphones">>], [id |-> "nn", name |-> <<>>],
       [id |-> "b1", name |-> <<"ESP32">>]>>,
     <<[id |-> "b1", name |-> <<"Arduino", "Nano">>],
       [id |-> "b1", name |-> <<"Arduino", "Nano">>]>>,
     <<[id |-> "b1", name |-> <<"BLE", "UART">>], [id |-> "b2", name |-> <<"ESP8266">>]>>}

\* a filter that lets every named peripheral through
LikelyArduino_NamedOnly(name) == name # <<>>

\* `device.name && (device.name.includes('Arduino') || ... )` (lines 258-263)
LikelyArduino(name) ==
    /\ name # <<>>
    /\ \E k \in 1..Len(name) : name[k] \in {"Arduino", "ESP32", "ESP8266", "BLE"}

\* the boards.push loops (lines 242-249, 256-271, 279-286)
RECURSIVE UsbBoards(_)
UsbBoards(list) ==
    IF list = <<>> THEN <<>>
    ELSE <<[id |-> Head(list).deviceId, type |-> "usb", details |-> Head(list)]>>
         \o UsbBoards(Tail(list))

RECURSIVE BleBoards(_)
BleBoards(list) ==
    IF list = <<>> THEN <<>>
    ELSE (IF LikelyArduino(Head(list).name)
          THEN <<[id |-> Head(list).id, type |-> "ble", details |-> Head(list)]>>
          ELSE <<>>)
         \o BleBoards(Tail(list))

RECURSIVE WifiBoards(_)
WifiBoards(list) ==
    IF list = <<>> THEN <<>>
    ELSE <<[id |-> Head(list).ip, type |-> "wifi", details |-> Head(list)]>>
         \o WifiBoards(Tail(list))

\* the await a scan reaches after the USB block (lines 252-276)
AfterUsb == IF BleManager THEN "scanForPeripherals" ELSE "getItem"

\* getAvailableBoards(): lines 234-240, up to the first await
getAvailableBoards ==
    /\ scan.pc = "idle"
    /\ scan' = [IdleScan EXCEPT
                  !.pc = IF platform = "android" /\ UsbSerial THEN "getDeviceList"
                         ELSE AfterUsb,
                  !.must = {<<h, registered[h]>> : h \in {x \in Hosts : registered[x] # NoPort}}]
    /\ UNCHANGED <<boardVars, compileVars, esp_devices, regs, registered,
                   serialMonitorCallbacks, monitorVars, screenVars>>

\* getAvailableBoards resumed after an await; `usb`, `ble`: what the driver
\* resolved to.  A rejected await reaches the catch, which rethrows (290-293).
scanResume(ok, usb, ble) ==
    /\ scan.pc \in {"getDeviceList", "scanForPeripherals", "getItem"}
    /\ scan' =
         IF ~ok
         THEN [IdleScan EXCEPT !.pc = "failed",
                               !.err = CASE scan.pc = "getDeviceList" -> "UsbError"
                                         [] scan.pc = "scanForPeripherals" -> "BleError"
                                         [] OTHER -> "StorageError"]
         ELSE CASE scan.pc = "getDeviceList" ->
                     [scan EXCEPT !.pc = AfterUsb, !.boards = @ \o UsbBoards(usb),
                                  !.usb = usb]
                [] scan.pc = "scanForPeripherals" ->
                     [scan EXCEPT !.pc = "getItem", !.boards = @ \o BleBoards(ble),
                                  !.ble = ble]
                [] OTHER ->
                     [scan EXCEPT !.pc = "ok", !.boards = @ \o WifiBoards(esp_devices)]
    /\ UNCHANGED <<boardVars, compileVars, esp_devices, regs, registered,
                   serialMonitorCallbacks, monitorVars, screenVars>>

\* the caller (EditorScreen.loadAvailableBoards) takes the result
settleScan ==
    /\ scan.pc \in {"ok", "failed"}
    /\ scan' = IdleScan
    /\ UNCHANGED <<boardVars, compileVars, esp_devices, regs, registered,
                   serialMonitorCallbacks, monitorVars, screenVars>>

\* the app process is restarted: every call in flight is gone, AsyncStorage stays
restart ==
    /\ regs' = [r \in RegCalls |-> IdleReg]
    /\ scan' = IdleScan
    /\ UNCHANGED <<boardVars, compileVars, esp_devices, registered,
                   serialMonitorCallbacks, monitorVars, screenVars>>

NextRegistry ==
    \/ \E r \in RegCalls, d \in Devices : addEspDevice(r, d)
    \/ \E r \in RegCalls, d \in FormInputs : handleAddEspDevice(r, d)
    \/ \E r \in RegCalls, h \in {d.ip : d \in Devices} : removeEspDevice(r, h)
    \/ \E r \in RegCalls, ok \in BOOLEAN : registryResume(r, ok)
    \/ \E r \in RegCalls : settleReg(r)
    \/ getAvailableBoards
    \/ \E ok \in BOOLEAN : scanResume(ok, <<>>, <<>>)
    \/ settleScan
    \/ restart

SpecRegistry == InitBoard /\ [][NextRegistry]_vars

\* Scans of a registry that earlier registrations have filled, for every
\* list the two drivers may answer with.
RECURSIVE Registrations(_)
Registrations(list) ==
    IF list = <<>> THEN [h \in Hosts |-> NoPort]
    ELSE [Registrations(Tail(list)) EXCEPT ![Head(list).ip] = Head(list).port]

InitScan ==
    /\ platform \in {"android", "ios"}
    /\ connectedDevice = None
    /\ connectionType = None
    /\ drv = [b \in Boards |-> "closed"]
    /\ faulted = FALSE
    /\ calls = [p \in Calls |-> IdleCall]
    /\ CompileIdle
    /\ \E a, b \in Devices :
          esp_devices \in {<<>>, <<a>>, <<a, b>>} /\ (esp_devices = <<a, b>> => a # b)
    /\ regs = [r \in RegCalls |-> IdleReg]
    /\ scan = IdleScan
    /\ registered = Registrations(esp_devices)
    /\ serialMonitorCallbacks = <<>>
    /\ arrived = 0
    /\ delivered = [h \in Handlers |-> <<>>]
    /\ thrown = None
    /\ listeners = ListenersFor(connectedDevice)
    /\ connectedBoard = connectedDevice

NextScan ==
    \/ getAvailableBoards
    \/ \E ok \in BOOLEAN, usb \in UsbLists, ble \in BleLists : scanResume(ok, usb, ble)
    \/ settleScan

SpecScan == InitScan /\ [][NextScan]_vars


\* Scheduling of the compile flow: a registered interval keeps firing, the
\* remote job keeps advancing, a pending await is eventually answered, and
\* a request that is issued again and again eventually succeeds.
FairCompile ==
    /\ WF_vars(saveProjectDone)
    /\ WF_vars(\E r \in {"queued", "compiling", "completed", "failed", "error"} :
                  compileResponse(r))
    /\ WF_vars(serverProgress)
    /\ \A t \in TickTasks : WF_vars(tick(t))
    /\ \A t \in TickTasks : WF_vars(\E ok \in BOOLEAN : statusResponse(t, ok))
    /\ \A t \in TickTasks : SF_vars(statusResponse(t, TRUE))
    /\ \A t \in Tasks : WF_vars(\E ok \in BOOLEAN : downloadResume(t, ok))
    /\ \A t \in Tasks : SF_vars(downloadResume(t, TRUE))

SpecCompileLive == SpecCompile /\ FairCompile

\* ======================================================================
\* Properties of the board service (checked under SpecBoard)
\* ======================================================================
Handles == {b \in Boards : drv[b] # "closed"}
AllReturned == \A p \in Calls : ~Running(calls[p])
OpenCalls == {"connectDevice", "connectToDevice"}

\* C1: a connectToBoard(B) that does not overlap any other connect or
\* disconnect call and starts with board A connected (a) issues its first
\* driver open call for B only once the driver has released A, and (b) on
\* its successful return leaves connectedDevice = B, connectionType =
\* B.type, B's handle open and A's handle closed.
C1_ReconnectTearsDownFirst ==
    [][\A p \in Calls :
          LET c == calls[p]
              n == calls'[p]
          IN (n.op = "connect" /\ n.solo) =>
               /\ (n.pc \in OpenCalls /\ c.pc \notin OpenCalls /\ n.prev # None)
                     => drv'[n.prev] = "closed"
               /\ (n.pc = "ok" /\ c.pc # "ok") =>
                     /\ connectedDevice' = n.board
                     /\ connectionType' = BoardType(n.board)
                     /\ BoardType(n.board) # "wifi" => drv'[n.board] = "open"
                     /\ n.prev \notin {None, n.board} => drv'[n.prev] = "closed"]_vars

\* C1 witness: connect(u1) has succeeded, then a non-overlapping connect(u2) has
C1_Witness ==
    \E p \in Calls :
        /\ calls[p].op = "connect" /\ calls[p].pc = "ok" /\ calls[p].solo
        /\ calls[p].prev = "u1" /\ calls[p].board = "u2"
        /\ connectedDevice = "u2" /\ drv["u1"] = "closed" /\ drv["u2"] = "open"

\* C2: as long as no driver call has thrown, at most one driver-level
\* device handle is open in every state, whatever connectToBoard calls
\* overlap, and once every call has returned the open handle (if any) is
\* the device recorded in connectedDevice.
C2_SingleHandleUnderReselection ==
    ~faulted =>
        /\ Cardinality(Handles) <= 1
        /\ AllReturned => Handles \subseteq {connectedDevice}

\* C3: at most one uploadBinary call is in its chunk loop (a chunk write in
\* flight or the pacing delay after one) at any time.
Transferring(c) == c.op = "upload" /\ c.pc \in {"writeBase64", "delay"}
C3_OneUploadTransferring ==
    Cardinality({p \in Calls : Transferring(calls[p])}) <= 1

\* C4: uploadBinary called while connectedDevice is null fails at once with
\* the no-board error and without any driver call; and whenever an upload
\* issues a chunk write, connectedDevice is non-null and is the device the
\* write addresses.
C4_UploadNeedsConnection ==
    [][\A p \in Calls :
          LET c == calls[p]
              n == calls'[p]
          IN /\ (c.pc = "idle" /\ n.op = "upload" /\ connectedDevice = None) =>
                    /\ n.pc = "failed" /\ n.err = "NoBoardConnected"
                    /\ drv' = drv
             /\ (n.op = "upload" /\ n.pc = "writeBase64" /\ c.pc # "writeBase64") =>
                    /\ connectedDevice # None
                    /\ n.tgt = connectedDevice]_vars

\* C4 witness: one upload was refused for want of a connection, another was
\* stopped at a chunk boundary because the connection was gone
C4_Witness ==
    \E p, q \in Calls :
        /\ calls[p].op = "upload" /\ calls[p].pc = "failed"
        /\ calls[p].err = "NoBoardConnected"
        /\ calls[q].op = "upload" /\ calls[q].pc = "failed"
        /\ calls[q].err = "TypeError" /\ Len(calls[q].progress) >= 1
        /\ connectedDevice = None

\* C7: after a cancellation request made while an upload is sending chunks,
\* at most the chunk already in flight is written and the upload never
\* succeeds.  (The service has no Cancelled outcome; any failed outcome is
\* accepted here as the upload having been cancelled.)
C7_CancelStopsUpload ==
    \A p \in Calls :
        calls[p].cancelAt >= 0 =>
            /\ Issued(calls[p]) <= calls[p].cancelAt
            /\ calls[p].pc # "ok"

\* C8: an upload that had chunks left to send when disconnectFromBoard
\* completed writes no further chunk and never reports success.  (The
\* service has no ConnectionLost cause; any failed outcome is accepted here
\* as that failure.)
C8_DisconnectFailsUpload ==
    \A p \in Calls :
        calls[p].lostAt >= 0 =>
            /\ Issued(calls[p]) <= calls[p].lostAt
            /\ calls[p].pc # "ok"

\* ======================================================================
\* Properties of one upload (checked under SpecUpload)
\* ======================================================================
\* ceil(n / c) for the payload size in bytes
CeilDiv(n, c) == (n + c - 1) \div c

\* an upload over a chunked transport (wired or wireless) that has returned
ChunkedUpload(c) == c.op = "upload" /\ c.chunkSize > 0

\* C5: a successful upload of an N-byte payload over a transport with
\* chunk size C has sent exactly ceil(N/C) chunks and reported progress
\* k/ceil(N/C) for k = 1..ceil(N/C), in that order (300 bytes over the
\* 20-byte wireless transport: 15 chunks).
C5_ChunkCountByBytes ==
    \A p \in Calls :
        LET c == calls[p]
            n == CeilDiv(c.file, c.chunkSize)
        IN (ChunkedUpload(c) /\ c.pc = "ok") =>
              /\ Len(c.progress) = n
              /\ \A k \in 1..Len(c.progress) :
                    c.progress[k][1] * n = k * c.progress[k][2]
              /\ (c.file = 300 /\ c.chunkSize = BleChunkSize) => Len(c.progress) = 15

\* the last progress value an upload reported is 1.0
ReportedComplete(c) ==
    /\ c.progress # <<>>
    /\ c.progress[Len(c.progress)][1] = c.progress[Len(c.progress)][2]

\* C6: the progress values an upload reports never decrease, and the
\* upload returns success if and only if the last value it reported is
\* 1.0; an upload of the empty payload does not succeed without reporting
\* completion.
C6_ProgressMonotoneAndComplete ==
    \A p \in Calls :
        LET c == calls[p] IN
        ChunkedUpload(c) =>
            /\ \A k \in 1..(Len(c.progress) - 1) :
                  c.progress[k][1] * c.progress[k + 1][2]
                      <= c.progress[k + 1][1] * c.progress[k][2]
            /\ c.pc = "ok" => ReportedComplete(c)
            /\ c.pc = "failed" => ~ReportedComplete(c)

\* ======================================================================
\* Properties of the compile flow (checked under SpecCompile)
\* ======================================================================
StatusRequestPcs == {"getCompilationStatus", "dlGetCompilationStatus"}

\* C9: once a status response with state completed or failed has been
\* observed, no step issues another getCompilationStatus request, neither a
\* timer callback nor the binary download.
C9_NoStatusRequestAfterTerminal ==
    [][terminalSeen =>
          \A t \in Tasks :
              tasks'[t].pc \in StatusRequestPcs => tasks'[t].pc = tasks[t].pc]_vars

\* C10: the binary of the compilation id is downloaded at most once and the
\* cache 'compiled_binaries' holds at most one entry for it.
C10_DownloadedOnce ==
    /\ downloads <= 1
    /\ Cardinality({k \in 1..Len(compiled_binaries) : compiled_binaries[k] = JobId}) <= 1

\* C11: once RetryLimit consecutive status requests have failed, polling
\* has stopped (the interval is cleared): the client does not go on polling
\* a service it cannot reach.
C11_PollingGivesUp ==
    failures >= RetryLimit => ~pollInterval

\* `binaries.find(b => b.id === compilationResult.compilation_id)` of
\* EditorScreen.uploadBinary: the cache has an entry for the id
BinaryLookup(id) == \E k \in 1..Len(compiled_binaries) : compiled_binaries[k] = id

\* the client has observed the completed job, stopped polling and holds its binary
CompletedWithBinary ==
    /\ ~pollInterval
    /\ ~isCompiling
    /\ compilationResult = "completed"
    /\ BinaryLookup(JobId)

\* C12: when the service has accepted the submission (the client is
\* polling) and the job is completed, then under fair scheduling the client
\* eventually has observed the completed snapshot, stopped polling, cleared
\* isCompiling and recorded a binary reference for the compilation id.
C12_CompileEventuallyYieldsBinary ==
    (pollInterval /\ serverStatus = "completed") ~> CompletedWithBinary

\* C13: in every state of the compile flow the locally held compilation
\* result is completed if and only if the cache holds a binary reference
\* for the compilation id (so the lookup Upload performs succeeds whenever
\* Upload is enabled).
C13_CompletedIffBinaryRecorded ==
    (compilationResult = "completed") <=> BinaryLookup(JobId)

\* ======================================================================
\* Properties of the device registry (checked under SpecRegistry)
\* ======================================================================
\* C14: no two entries of a getAvailableBoards result have the same id.
C14_ScanHasNoDuplicateIds ==
    scan.pc = "ok" =>
        \A j, k \in 1..Len(scan.boards) :
            scan.boards[j].id = scan.boards[k].id => j = k

\* C15: a getAvailableBoards call does not fail because the enumeration of
\* one transport driver (USB device list, BLE scan) failed.
C15_DriverFailureDoesNotAbortScan ==
    scan.pc = "failed" => scan.err \notin {"UsbError", "BleError"}

\* C16: the result of a getAvailableBoards call contains, for every host
\* whose registration had completed when the call began and was neither
\* removed nor renewed since, a wifi entry whose id is the host and whose
\* details carry that host and its port.
C16_RegisteredDeviceIsListed ==
    scan.pc = "ok" =>
        \A m \in scan.must :
            \E k \in 1..Len(scan.boards) :
                /\ scan.boards[k].type = "wifi"
                /\ scan.boards[k].id = m[1]
                /\ scan.boards[k].details.ip = m[1]
                /\ scan.boards[k].details.port = m[2]

\* a host text that is a dotted quad of fields 0..255
ValidAddress(h) ==
    /\ Len(Octets(h)) = 4
    /\ \A k \in 1..4 : Octets(h)[k] \in 0..255

\* C17: the persisted registry never holds an entry whose host is not a
\* valid address or whose port is outside 1..65535, whichever way the
\* registration was made.
C17_RegistryHoldsOnlyValidDevices ==
    \A k \in 1..Len(esp_devices) :
        /\ ValidAddress(esp_devices[k].ip)
        /\ esp_devices[k].port \in 1..65535

\* ======================================================================
\* Further properties of the board service
\* ======================================================================
\* C18 (under SpecBoard): a disconnectFromBoard called while nothing is
\* connected returns successfully at once, makes no driver call and changes
\* neither connection field; and every disconnectFromBoard that returns
\* successfully leaves connectedDevice and connectionType null, so that a
\* second call straight after it is that no-op.
C18_DisconnectIdempotent ==
    [][\A p \in Calls :
          LET c == calls[p]
              n == calls'[p]
          IN /\ (c.pc = "idle" /\ n.op = "disconnect" /\ connectedDevice = None) =>
                    /\ n.pc = "ok"
                    /\ drv' = drv
                    /\ connectedDevice' = None
                    /\ connectionType' = None
                    /\ connectionType = None
             /\ (n.op = "disconnect" /\ n.pc = "ok" /\ c.pc # "ok") =>
                    /\ connectedDevice' = None
                    /\ connectionType' = None]_vars

\* C18 witness: one disconnect tore the connection to u1 down, another
\* found nothing connected; both returned successfully
C18_Witness ==
    \E p, q \in Calls :
        /\ calls[p].op = "disconnect" /\ calls[p].pc = "ok" /\ calls[p].prev = "u1"
        /\ calls[q].op = "disconnect" /\ calls[q].pc = "ok" /\ calls[q].prev = None
        /\ connectedDevice = None /\ drv["u1"] = "closed"

\* C19 (under SpecSerial): sendData called while nothing is connected fails
\* with the no-board error, and called on a wifi connection fails with the
\* cannot-send error; in both cases no driver write is issued and
\* connectedDevice, connectionType and the subscriber list are unchanged.
C19_SendNeedsSendCapableLink ==
    [][\A p \in Calls :
          LET c == calls[p]
              n == calls'[p]
          IN (c.pc = "idle" /\ n.op = "send" /\
                  (connectedDevice = None \/ connectionType = "wifi")) =>
                /\ n.pc = "failed"
                /\ n.err = IF connectedDevice = None THEN "NoBoardConnected"
                           ELSE "CannotSend"
                /\ drv' = drv
                /\ connectedDevice' = connectedDevice
                /\ connectionType' = connectionType
                /\ serialMonitorCallbacks' = serialMonitorCallbacks]_vars

\* C19 witness: with a subscriber registered, one sendData was refused for
\* want of a connection and another because the connection is a wifi target
C19_Witness ==
    \E p, q \in Calls :
        /\ calls[p].op = "send" /\ calls[p].pc = "failed"
        /\ calls[p].err = "NoBoardConnected"
        /\ calls[q].op = "send" /\ calls[q].pc = "failed"
        /\ calls[q].err = "CannotSend"
        /\ connectedDevice = "w1" /\ connectionType = "wifi"
        /\ serialMonitorCallbacks # <<>>

\* C20 (under SpecBoard): when a driver call made by connectToBoard to
\* establish the connection (device connect, device open, starting
\* notifications) fails, the call fails with that driver error and leaves
\* connectedDevice and connectionType null.
C20_FailedConnectEndsDisconnected ==
    [][\A p \in Calls :
          LET c == calls[p]
              n == calls'[p]
          IN (c.op = "connect" /\ n.pc = "failed" /\
                  c.pc \in {"connectDevice", "openDevice", "connectToDevice",
                            "startNotification"}) =>
                /\ n.err = "DriverError"
                /\ connectedDevice' = None
                /\ connectionType' = None]_vars

\* C20 witness: the BLE connect to b1 succeeded at the driver, starting the
\* notifications failed, and the call ended failed with nothing connected
C20_Witness ==
    \E p \in Calls :
        /\ calls[p].op = "connect" /\ calls[p].pc = "failed"
        /\ calls[p].err = "DriverError" /\ calls[p].board = "b1"
        /\ drv["b1"] = "open"
        /\ connectedDevice = None /\ connectionType = None

\* C21 (under SpecBoard): once a connectToBoard that overlapped no other
\* connect or disconnect has failed and no call is in flight, the driver
\* holds no device handle while connectedDevice is null, and never more
\* than one.
C21_FailedConnectLeavesNoHandle ==
    (AllReturned /\ \E p \in Calls :
         calls[p].op = "connect" /\ calls[p].pc = "failed" /\ calls[p].solo) =>
        /\ connectedDevice = None => Handles = {}
        /\ Cardinality(Handles) <= 1

\* C22 (under SpecSerial): when the driver write of a sendData call fails,
\* the call fails with that error and connectedDevice and connectionType
\* are null afterwards.
C22_FailedSendDisconnects ==
    [][\A p \in Calls :
          LET c == calls[p]
              n == calls'[p]
          IN (c.op = "send" /\ c.pc = "write" /\ n.pc = "failed") =>
                /\ n.err = "DriverError"
                /\ connectedDevice' = None
                /\ connectionType' = None]_vars

\* ------------------------------------------------------------ inbound data
Subscribed(h) == \E k \in 1..Len(serialMonitorCallbacks) : serialMonitorCallbacks[k] = h

\* the step is the arrival of a chunk, and handler h is called with it after
\* everything it was called with before
ReceivesChunk(h) ==
    /\ Len(delivered'[h]) > Len(delivered[h])
    /\ SubSeq(delivered'[h], 1, Len(delivered[h])) = delivered[h]
    /\ \A j \in (Len(delivered[h]) + 1)..Len(delivered'[h]) : delivered'[h][j] = arrived'

\* C23: every chunk that arrives from the board is delivered to every handler
\* subscribed at that moment, and each handler sees the chunks in the order
\* of their arrival.
C23_EveryChunkToEverySubscriber ==
    [][arrived' = arrived + 1 => \A h \in Handlers : Subscribed(h) => ReceivesChunk(h)]_vars

\* C24: when a handler throws on a chunk, the other subscribed handlers are
\* still called with that chunk.
C24_HandlerFailureIsolated ==
    [][(arrived' = arrived + 1 /\ thrown' # None) =>
          \A h \in Handlers \ {thrown'} : Subscribed(h) => ReceivesChunk(h)]_vars

\* C25: when disconnectFromBoard completes, no handler is subscribed any more.
C25_DisconnectClearsSubscribers ==
    [][\A p \in Calls :
          (calls'[p].op = "disconnect" /\ calls'[p].pc = "ok" /\ calls[p].pc # "ok") =>
              serialMonitorCallbacks' = <<>>]_vars

\* ------------------------------------------------- the link during an upload
\* C26: no sendData call issues its write to the link after an upload has
\* issued a chunk write and before it has issued its last one.
C26_NoSendBetweenChunks ==
    [][\A p \in Calls :
          (calls[p].pc = "idle" /\ calls'[p].op = "send" /\ calls'[p].pc = "write") =>
              ~\E q \in Calls : ChunksRemain(calls[q])]_vars

\* ------------------------------------------------- the events of an upload
Uploads == {calls[p] : p \in {q \in Calls : calls[q].op = "upload"}}

IsLineEvent(e) == e[1] \in {"setDTR", "setRTS"}
IsWrite(e) == e[1] = "writeBase64"
IsWritten(e) == e[1] = "written"
IsChunkEvent(e) == e[1] \in {"writeBase64", "written", "progress", "delay"}

\* a control line event with its level, a hold without its duration
Shape(e) == IF e[1] = "hold" THEN <<"hold">> ELSE <<e[1], e[2]>>

\* DTR false, RTS true, hold, DTR true, hold, RTS false
EntrySequence ==
    <<<<"setDTR", 0>>, <<"setRTS", 1>>, <<"hold">>, <<"setDTR", 1>>, <<"hold">>, <<"setRTS", 0>>>>

EntryCompleted(c) ==
    /\ Len(c.log) >= Len(EntrySequence)
    /\ \A k \in 1..Len(EntrySequence) : Shape(c.log[k]) = EntrySequence[k]

\* C27: a wired upload that has issued a chunk write has before it completed
\* the bootloader entry DTR false, RTS true, hold, DTR true, hold, RTS false,
\* in this order; a wireless or network upload toggles no control line.
C27_BootloaderBeforeChunks ==
    \A c \in Uploads :
        /\ (c.via = "usb" /\ SelectSeq(c.log, IsWrite) # <<>>) => EntryCompleted(c)
        /\ c.via \in {"ble", "wifi"} => SelectSeq(c.log, IsLineEvent) = <<>>

C27_Witness ==
    \E c \in Uploads :
        c.via = "usb" /\ c.pc = "writeBase64" /\ Len(SelectSeq(c.log, IsWrite)) = 2

\* the events of a wired upload after its bootloader entry
AfterEntry(c) == SubSeq(c.log, Len(EntrySequence) + 1, Len(c.log))

\* DTR false, hold, DTR true
ResetSequence == <<<<"setDTR", 0>>, <<"hold">>, <<"setDTR", 1>>>>

\* C28: a successful wired upload ends with exactly one reset (DTR false,
\* hold, DTR true) after its last chunk; no upload toggles a line after the
\* bootloader entry unless all its chunk writes have completed; a wireless or
\* network upload toggles no DTR line.
C28_ResetOnceAfterLastChunk ==
    \A c \in Uploads :
        /\ (c.via = "usb" /\ c.pc = "ok") =>
              LET t == AfterEntry(c)  n == Len(AfterEntry(c)) IN
              /\ EntryCompleted(c)
              /\ n >= 3
              /\ \A k \in 1..3 : Shape(t[n - 3 + k]) = ResetSequence[k]
              /\ SelectSeq(SubSeq(t, 1, n - 3), IsLineEvent) = <<>>
        /\ (c.via = "usb" /\ EntryCompleted(c) /\ SelectSeq(AfterEntry(c), IsLineEvent) # <<>>) =>
              Len(SelectSeq(c.log, IsWritten)) = c.totalChunks
        /\ c.via \in {"ble", "wifi"} => \A k \in 1..Len(c.log) : c.log[k][1] # "setDTR"

C28_Witness ==
    \E c \in Uploads :
        c.via = "usb" /\ c.pc = "ok" /\ Len(SelectSeq(c.log, IsWritten)) = 3

\* C29: when a chunk write fails, the upload ends failed with the driver's
\* error, nothing more is written or reported by it, and connectedDevice and
\* connectionType are what they were.
C29_ChunkFailureEndsUpload ==
    [][\A p \in Calls :
          LET c == calls[p]  n == calls'[p] IN
          /\ (c.op = "upload" /\ c.pc = "writeBase64" /\ n.pc # c.pc /\
                Len(SelectSeq(n.log, IsWritten)) = Len(SelectSeq(c.log, IsWritten))) =>
                  /\ n.pc = "failed"
                  /\ n.err = "DriverError"
                  /\ n.log = c.log
                  /\ n.progress = c.progress
                  /\ connectedDevice' = connectedDevice
                  /\ connectionType' = connectionType
          /\ (c.op = "upload" /\ c.pc = "failed") => n \in {c, IdleCall}]_vars

C29_Witness ==
    \E c \in Uploads :
        /\ c.pc = "failed" /\ c.err = "DriverError"
        /\ Len(SelectSeq(c.log, IsWrite)) = 2
        /\ Len(c.progress) = 1
        /\ connectedDevice # None

\* the chunk size of a transport (128 wired, 20 wireless)
MaxChunk(via) == IF via = "usb" THEN 128 ELSE 20

\* C30: the chunk events of an upload are rounds of write issued, write
\* completed, progress reported, delay elapsed; the slices written start at
\* 0, each starts where the one before ended and has between 1 and the
\* transport's chunk size characters, and those of a successful upload end
\* at the end of the Base64 text.
C30_ChunksInOrderAndExact ==
    \A c \in Uploads :
        LET ev == SelectSeq(c.log, IsChunkEvent)
            w == SelectSeq(c.log, IsWrite)
        IN
        /\ \A k \in 1..Len(ev) :
              ev[k][1] = CASE k % 4 = 1 -> "writeBase64"
                           [] k % 4 = 2 -> "written"
                           [] k % 4 = 3 -> "progress"
                           [] OTHER -> "delay"
        /\ \A k \in 1..Len(ev) :
              ev[k][1] \in {"written", "progress"} => ev[k][2] = (k + 3) \div 4
        /\ \A m \in 1..Len(w) :
              /\ w[m][2] = IF m = 1 THEN 0 ELSE w[m - 1][2] + w[m - 1][3]
              /\ w[m][3] >= 1
              /\ w[m][3] <= MaxChunk(c.via)
        /\ (c.pc = "ok" /\ c.via \in {"usb", "ble"}) =>
              IF w = <<>> THEN Base64Length(c.file) = 0
              ELSE w[Len(w)][2] + w[Len(w)][3] = Base64Length(c.file)

C30_Witness ==
    \E c \in Uploads :
        c.pc = "ok" /\ c.via = "ble" /\ Len(SelectSeq(c.log, IsWrite)) = 3

\* ------------------------------------------------------- the network upload
\* C31: an upload over a network connection makes one call to the OTA
\* driver, with the host of the connected target and its port (8266 when it
\* has none), writes no chunk and toggles no line; it returns when that call
\* resolves and fails with the call's error when it rejects.
C31_OtaSingleOpaqueStep ==
    \A c \in Uploads :
        c.via = "wifi" =>
            /\ c.log = <<>>
            /\ c.progress = <<>>
            /\ Len(c.ota) = 1
            /\ c.ota[1].host = Details(connectedDevice).ip
            /\ c.ota[1].port = IF Details(connectedDevice).port = 0 THEN 8266
                                ELSE Details(connectedDevice).port
            /\ c.pc = "otaUpload" <=> c.ota[1].result = "pending"
            /\ c.pc = "ok" <=> c.ota[1].result = "resolved"
            /\ (c.pc = "failed" /\ c.err = "DriverError") <=> c.ota[1].result = "rejected"
            /\ c.pc \in {"otaUpload", "ok", "failed"}
            /\ c.pc = "failed" => c.err = "DriverError"

C31_Witness ==
    \E c \in Uploads :
        c.via = "wifi" /\ c.pc = "ok" /\ connectedDevice = "w2" /\ c.ota[1].port = 8266

\* ------------------------------------------------------ wireless enumeration
IsBle(b) == b.type = "ble"
IsUsb(b) == b.type = "usb"
IsWifi(b) == b.type = "wifi"

AllowListed(d) ==
    /\ d.name # <<>>
    /\ \E k \in 1..Len(d.name) : d.name[k] \in {"Arduino", "ESP32", "ESP8266", "BLE"}

\* C32: the wireless entries of a scan are, in scan order, exactly the
\* scanned peripherals whose advertised name is not empty and contains
\* 'Arduino', 'ESP32', 'ESP8266' or 'BLE'; the wired and network entries are
\* all the devices the USB driver and the registry hold, whatever their name.
C32_WirelessAllowList ==
    LET ble == SelectSeq(scan.boards, IsBle)
        want == SelectSeq(scan.ble, AllowListed)
    IN
    /\ \A k \in 1..Len(ble) : AllowListed(ble[k].details)
    /\ scan.pc \in {"getItem", "ok"} =>
          /\ Len(ble) = Len(want)
          /\ \A k \in 1..Len(ble) : ble[k].details = want[k] /\ ble[k].id = want[k].id
          /\ Len(SelectSeq(scan.boards, IsUsb)) = Len(scan.usb)
    /\ scan.pc = "ok" => Len(SelectSeq(scan.boards, IsWifi)) = Len(esp_devices)

C32_Witness ==
    /\ scan.pc = "ok"
    /\ Len(scan.ble) = 3
    /\ Len(SelectSeq(scan.boards, IsBle)) = 1
    /\ Len(SelectSeq(scan.boards, IsWifi)) = 2

\* ------------------------------------------------- the connection fields
\* C33: whenever every call is at an await or has returned, connectedDevice
\* is null exactly if connectionType is null, and a set connectionType is the
\* type of the connected board, one of 'usb', 'ble', 'wifi'.
C33_FieldsAgree ==
    /\ connectedDevice = None <=> connectionType = None
    /\ connectedDevice # None =>
          /\ connectionType = BoardType(connectedDevice)
          /\ connectionType \in {"usb", "ble", "wifi"}

C33_Witness ==
    /\ connectedDevice # None
    /\ faulted
    /\ \E p, q \in Calls :
          /\ calls[p].op = "connect" /\ calls[p].pc = "failed"
          /\ calls[q].op = "connect" /\ calls[q].pc = "ok"

\* ------------------------------------------------- the target of an upload
\* C34: every driver call an upload has pending addresses the device that
\* was connected when uploadBinary was called.
C34_UploadKeepsItsDevice ==
    \A c \in Uploads : (Running(c) /\ c.tgt # None) => c.tgt = c.prev

\* ------------------------------------------------- inbound data, once each
\* the number of times h is subscribed
Subscriptions(h) ==
    Cardinality({k \in 1..Len(serialMonitorCallbacks) : serialMonitorCallbacks[k] = h})

\* C35: a handler that is subscribed once is called exactly once with each
\* chunk that arrives, whatever connects and disconnects came before.
C35_EachChunkOnce ==
    [][arrived' = arrived + 1 =>
          \A h \in Handlers :
              Subscriptions(h) = 1 => Len(delivered'[h]) = Len(delivered[h]) + 1]_vars

\* ------------------------------------------- unsubscribing during delivery
\* C36: when a chunk arrives, every handler subscribed at that moment and
\* still subscribed after the fan-out has received it, and no handler that
\* was not subscribed has.
C36_RemovalDuringDelivery ==
    [][arrived' = arrived + 1 =>
          \A h \in Handlers :
              /\ (Subscribed(h) /\ \E k \in 1..Len(serialMonitorCallbacks') :
                                       serialMonitorCallbacks'[k] = h) => ReceivesChunk(h)
              /\ ~Subscribed(h) => delivered'[h] = delivered[h]]_vars

\* ------------------------------------------------- the registry, one call
\* at a time
NoDuplicateHost(list) ==
    \A j, k \in 1..Len(list) : list[j].ip = list[k].ip => j = k

HostAt(list, ip) == {k \in 1..Len(list) : list[k].ip = ip}

\* C37: with registry calls made one at a time the registry holds at most
\* one entry per host; a completed addEspDevice of a host already present
\* replaces that entry where it is and of an absent host appends it; a
\* completed removeEspDevice(host) leaves exactly the entries of the other
\* hosts, in their order; a failed call leaves the registry as it was.
C37_RegistryOneEntryPerHost ==
    [][LET c == regs[1]  d == regs[1].device IN
       /\ NoDuplicateHost(esp_devices')
       /\ regs'[1].pc = "failed" => esp_devices' = esp_devices
       /\ (c.pc = "setItem" /\ regs'[1].pc = "ok" /\ c.op = "add") =>
             IF HostAt(esp_devices, d.ip) = {}
             THEN esp_devices' = Append(esp_devices, d)
             ELSE /\ Len(esp_devices') = Len(esp_devices)
                  /\ \A k \in 1..Len(esp_devices) :
                        esp_devices'[k] = IF k \in HostAt(esp_devices, d.ip) THEN d
                                          ELSE esp_devices[k]
       /\ (c.pc = "setItem" /\ regs'[1].pc = "ok" /\ c.op = "remove") =>
             /\ esp_devices' = SelectSeq(esp_devices, LAMBDA e : e.ip # d.ip)
             /\ HostAt(esp_devices, d.ip) = {} => esp_devices' = esp_devices]_vars

C37_Witness ==
    /\ regs[1].op = "add" /\ regs[1].pc = "setItem"
    /\ Len(esp_devices) = 3
    /\ HostAt(esp_devices, regs[1].device.ip) = {2}
    /\ esp_devices[2] # regs[1].device
    /\ regs[1].espDevices = [esp_devices EXCEPT ![2] = regs[1].device]

\* ------------------------------------------------ the screen and the service
\* C38: when no connect call is in progress, a board the screen shows as
\* connected is the board the service is connected to.
C38_ScreenAgreesWithService ==
    calls[1].pc = "idle" => (connectedBoard # None => connectedDevice = connectedBoard)
====
